---- MODULE Spec2Model ----
(***************************************************************************)
(* The packaging declaration of GRIPper2 (setup.py) and the install step   *)
(* a packaging tool performs on it: evaluate the arguments of setup() in   *)
(* a source tree, write the metadata, check the interpreter, resolve the   *)
(* declared dependencies, build the declared scripts and packages, and     *)
(* place them in the environment.                                          *)
(*                                                                         *)
(* Strings the tools transform (name, version, download_url) are tuples of *)
(* one-character strings; the other strings are left whole.  Classifiers   *)
(* are tuples of their ' :: '-separated components.                        *)
(***************************************************************************)
EXTENDS Naturals, Sequences, FiniteSets

VARIABLES
    tree,       \* the source tree the step runs in: top-level entry -> kind
    interp,     \* version of the interpreter running the step
    index,      \* distributions the package index can supply
    env,        \* distributions installed in the environment
    path,       \* the execution path: executable name -> what is there
    path0,      \* the execution path when the current run started
    pc,         \* position of the current run
    dist,       \* <<>> or <<d>>: the distribution setup() declared in this run
    pkginfo,    \* <<>> or <<m>>: the metadata written for it
    outcome,    \* result of the current run
    runs,       \* number of runs started
    prevDist,   \* the declaration of the previous run
    prevTree    \* the source tree of the previous run

vars == <<tree, interp, index, env, path, path0, pc, dist, pkginfo, outcome,
          runs, prevDist, prevTree>>

\* Number of runs of the install step a behaviour may hold.
MaxRuns == 2

(***************************************************************************)
(* The environment the step runs in.                                       *)
(***************************************************************************)
\* Top-level entries of a source tree, and what each may be: nothing, a
\* regular file, a directory, or a directory holding __init__.py.
TreeNames == {"gripper2", "griplib"}
Trees ==
    {t \in [TreeNames -> {"absent", "file", "dir", "pkg"}] :
        t["griplib"] \in {"absent", "pkg"}}

Interpreters == {"3.7", "3.9", "3.12"}

\* Executables tracked on the execution path. "foreign" was put there by
\* something else; "own" is a script of this distribution.
PathNames == {"gripper2", "samtools"}
Paths == [PathNames -> {"none", "foreign"}]

FileKind(t, n) == IF n \in DOMAIN t THEN t[n] ELSE "absent"

Range(s) == {s[i] : i \in DOMAIN s}

(***************************************************************************)
(* The arguments of setup().                                               *)
(***************************************************************************)
name == <<"g", "r", "i", "p", "p", "e", "r", "2">>

version_bumped == <<"v", "0", ".", "2", ".", "0">>

version == <<"v", "0", ".", "1", ".", "0">>

author == "Adam Ewing"

author_email == "adam.ewing@gmail.com"

description ==
    "detect gene retrocopy insertion polymorphisms from short-read paired-end WGS"

license == "MIT"

url == "https://github.com/adamewing/GRIPper2"

download_url ==
    <<"h", "t", "t", "p", "s", ":", "/", "/", "g", "i", "t", "h", "u", "b",
      ".", "c", "o", "m", "/", "a", "d", "a", "m", "e", "w", "i", "n", "g",
      "/", "G", "R", "I", "P", "p", "e", "r", "2", "/", "a", "r", "c", "h",
      "i", "v", "e", "/", "r", "e", "f", "s", "/", "t", "a", "g", "s", "/",
      "v", "0", ".", "1", ".", "0", ".", "t", "a", "r", ".", "g", "z">>

scripts_empty == <<>>

scripts_two == <<"gripper2", "gripper2-plot">>

scripts == <<"gripper2">>

\* find_packages(): the directories of the tree that hold __init__.py.
find_packages(t) == {n \in DOMAIN t : t[n] = "pkg"}

install_requires_short == <<"pysam", "numpy">>

install_requires == <<"pysam", "numpy", "scikit-bio">>

classifiers_short ==
    << <<"Development Status", "4 - Beta">>,
       <<"License", "OSI Approved", "MIT License">>,
       <<"Programming Language", "Python", "3.8">>,
       <<"Programming Language", "Python", "3.9">>,
       <<"Programming Language", "Python", "3.10">> >>

classifiers ==
    << <<"Development Status", "4 - Beta">>,
       <<"License", "OSI Approved", "MIT License">>,
       <<"Programming Language", "Python", "3.8">>,
       <<"Programming Language", "Python", "3.9">>,
       <<"Programming Language", "Python", "3.10">>,
       <<"Programming Language", "Python", "3.11">> >>

\* setup() is given no python_requires: <<>> is "no requirement", <<S>> a
\* requirement admitting the interpreters of S.
python_requires_classified == << {"3.8", "3.9", "3.10", "3.11"} >>

python_requires == <<>>

\* A variant of the call whose scripts are found in the tree at run time.
SetupArgs_globScripts(t) ==
    [name |-> name, version |-> version, author |-> author,
     author_email |-> author_email, description |-> description,
     license |-> license, url |-> url, download_url |-> download_url,
     scripts |-> IF FileKind(t, "gripper2") = "file" THEN <<"gripper2">> ELSE <<>>,
     packages |-> find_packages(t),
     install_requires |-> install_requires, classifiers |-> classifiers,
     python_requires |-> python_requires]

\* The keyword arguments the call passes when evaluated in tree t.
SetupArgs(t) ==
    [name |-> name, version |-> version, author |-> author,
     author_email |-> author_email, description |-> description,
     license |-> license, url |-> url, download_url |-> download_url,
     scripts |-> scripts, packages |-> find_packages(t),
     install_requires |-> install_requires, classifiers |-> classifiers,
     python_requires |-> python_requires]

(***************************************************************************)
(* What the packaging tool does with the declared strings.                 *)
(***************************************************************************)
Digits == {"0", "1", "2", "3", "4", "5", "6", "7", "8", "9"}

Alnum ==
    Digits \cup
    {"a", "b", "c", "d", "e", "f", "g", "h", "i", "j", "k", "l", "m", "n",
     "o", "p", "q", "r", "s", "t", "u", "v", "w", "x", "y", "z",
     "A", "B", "C", "D", "E", "F", "G", "H", "I", "J", "K", "L", "M", "N",
     "O", "P", "Q", "R", "S", "T", "U", "V", "W", "X", "Y", "Z"}

\* The pieces of s between occurrences of the character c.
RECURSIVE Split(_, _)
Split(s, c) ==
    IF \A i \in DOMAIN s : s[i] # c
    THEN <<s>>
    ELSE LET k == CHOOSE i \in DOMAIN s :
                      s[i] = c /\ \A j \in DOMAIN s : j < i => s[j] # c
         IN  <<SubSeq(s, 1, k - 1)>> \o Split(SubSeq(s, k + 1, Len(s)), c)

RECURSIVE Join(_, _)
Join(parts, c) ==
    IF Len(parts) = 0 THEN <<>>
    ELSE IF Len(parts) = 1 THEN parts[1]
    ELSE parts[1] \o <<c>> \o Join(Tail(parts), c)

\* A run of digits read as a number and written back: no leading zeros.
RECURSIVE StripZeros(_)
StripZeros(seg) ==
    IF Len(seg) > 1 /\ seg[1] = "0" THEN StripZeros(Tail(seg)) ELSE seg

\* The version the tool records: the release segments of the declared
\* version without a leading "v" and without leading zeros; a string that is
\* no dotted run of numbers is kept as declared.
NormalizeVersion(v) ==
    LET body == IF Len(v) > 0 /\ v[1] \in {"v", "V"} THEN Tail(v) ELSE v
        segs == Split(body, ".")
    IN  IF \A i \in DOMAIN segs :
               Len(segs[i]) > 0 /\ \A j \in DOMAIN segs[i] : segs[i][j] \in Digits
        THEN Join([i \in DOMAIN segs |-> StripZeros(segs[i])], ".")
        ELSE v

\* The project name used for the files of the distribution: every run of
\* characters other than letters, digits and "." becomes one "-".
RECURSIVE SafeName(_)
SafeName(s) ==
    IF Len(s) = 0 THEN <<>>
    ELSE IF s[1] \in Alnum \cup {"."} THEN <<s[1]>> \o SafeName(Tail(s))
    ELSE IF Len(s) > 1 /\ ~(s[2] \in Alnum \cup {"."}) THEN SafeName(Tail(s))
    ELSE <<"-">> \o SafeName(Tail(s))

\* The metadata written for a declared distribution d.
Metadata(d) ==
    [name |-> d.name, project_name |-> SafeName(d.name),
     version |-> NormalizeVersion(d.version),
     license |-> d.license, classifiers |-> d.classifiers,
     requires |-> d.install_requires]

\* The interpreter check: only a declared python_requires can reject.
PythonOK(d, v) == d.python_requires = <<>> \/ v \in d.python_requires[1]

\* Every declared dependency is installed already or can be supplied.
Resolvable(d, e, ix) == Range(d.install_requires) \subseteq (e \cup ix)

\* Building the scripts copies each named file out of the tree.
ScriptsBuildable(d, t) == \A s \in Range(d.scripts) : FileKind(t, s) = "file"

InstallScripts_clobber(p, ss, replace) ==
    [n \in DOMAIN p \cup Range(ss) |-> IF n \in Range(ss) THEN "own" ELSE "none"]

\* The execution path after the scripts ss are placed on path p. A script
\* whose name is taken by a foreign file either replaces it or, when the
\* tool skips destinations newer than what it built, leaves it there.
InstallScripts(p, ss, replace) ==
    [n \in DOMAIN p \cup Range(ss) |->
        IF n \in Range(ss)
        THEN IF FileKind(p, n) = "foreign" /\ ~replace THEN "foreign" ELSE "own"
        ELSE p[n]]

(***************************************************************************)
(* The install step.                                                       *)
(***************************************************************************)
Init ==
    /\ tree \in Trees
    /\ interp \in Interpreters
    /\ env \in {{}, {"numpy"}}
    /\ index \in SUBSET {"pysam", "numpy", "scikit-bio"}
    /\ path \in Paths
    /\ path0 = path
    /\ pc = "start"
    /\ dist = <<>>
    /\ pkginfo = <<>>
    /\ outcome = "none"
    /\ runs = 1
    /\ prevDist = <<>>
    /\ prevTree = <<>>

\* setup.py is executed: the arguments of setup() are evaluated in the tree.
Declare ==
    /\ pc = "start"
    /\ dist' = <<SetupArgs(tree)>>
    /\ pc' = "egg_info"
    /\ UNCHANGED <<tree, interp, index, env, path, path0, pkginfo, outcome,
                   runs, prevDist, prevTree>>

\* The metadata of the declared distribution is written.
WriteMetadata ==
    /\ pc = "egg_info"
    /\ pkginfo' = <<Metadata(dist[1])>>
    /\ pc' = "check_python"
    /\ UNCHANGED <<tree, interp, index, env, path, path0, dist, outcome,
                   runs, prevDist, prevTree>>

CheckPython ==
    /\ pc = "check_python"
    /\ IF PythonOK(dist[1], interp)
       THEN pc' = "resolve" /\ outcome' = outcome
       ELSE pc' = "done" /\ outcome' = "fail_python"
    /\ UNCHANGED <<tree, interp, index, env, path, path0, dist, pkginfo,
                   runs, prevDist, prevTree>>

ResolveDependencies ==
    /\ pc = "resolve"
    /\ IF Resolvable(dist[1], env, index)
       THEN pc' = "build" /\ outcome' = outcome
       ELSE pc' = "done" /\ outcome' = "fail_dependency"
    /\ UNCHANGED <<tree, interp, index, env, path, path0, dist, pkginfo,
                   runs, prevDist, prevTree>>

Build ==
    /\ pc = "build"
    /\ IF ScriptsBuildable(dist[1], tree)
       THEN pc' = "install" /\ outcome' = outcome
       ELSE pc' = "done" /\ outcome' = "fail_script"
    /\ UNCHANGED <<tree, interp, index, env, path, path0, dist, pkginfo,
                   runs, prevDist, prevTree>>

\* The dependencies, then the distribution and its scripts, are installed.
Install ==
    /\ pc = "install"
    /\ \E replace \in BOOLEAN :
          path' = InstallScripts(path, dist[1].scripts, replace)
    /\ env' = env \cup Range(dist[1].install_requires) \cup {"gripper2"}
    /\ outcome' = "success"
    /\ pc' = "done"
    /\ UNCHANGED <<tree, interp, index, path0, dist, pkginfo, runs, prevDist,
                   prevTree>>

\* The step is run again, in the same environment, on a source tree that
\* may differ.
NewRun ==
    /\ pc = "done"
    /\ runs < MaxRuns
    /\ \E t \in Trees : tree' = t
    /\ prevDist' = dist
    /\ prevTree' = <<tree>>
    /\ dist' = <<>>
    /\ pkginfo' = <<>>
    /\ outcome' = "none"
    /\ path0' = path
    /\ pc' = "start"
    /\ runs' = runs + 1
    /\ UNCHANGED <<interp, index, env, path>>

Next ==
    \/ Declare
    \/ WriteMetadata
    \/ CheckPython
    \/ ResolveDependencies
    \/ Build
    \/ Install
    \/ NewRun

Spec == Init /\ [][Next]_vars

(***************************************************************************)
(* Properties.                                                             *)
(***************************************************************************)
DeclaredDeps == {"pysam", "numpy", "scikit-bio"}

DepsResolvable == DeclaredDeps \subseteq (env \cup index)

ScriptFileExists == FileKind(tree, "gripper2") = "file"

\* C1, as stated: whenever the three declared dependencies are resolvable
\* the install ends in success, whatever the script file named in scripts
\* and the result of find_packages() are.
C1_SucceedsWheneverResolvable ==
    (pc = "done" /\ DepsResolvable) => outcome = "success"

\* C1, amended: when the three declared dependencies are resolvable and the
\* source tree holds a regular file gripper2, the install ends in success;
\* the result of find_packages() cannot make it fail.
C1_SucceedsWhenResolvableAndScriptExists ==
    (pc = "done" /\ DepsResolvable /\ ScriptFileExists) => outcome = "success"

C1_Witness ==
    /\ pc = "done" /\ outcome = "success"
    /\ DepsResolvable /\ ScriptFileExists
    /\ dist # <<>> /\ dist[1].packages = {"griplib"}

C3_MetadataUnchanged ==
    pkginfo # <<>> =>
        /\ pkginfo[1].name = <<"g", "r", "i", "p", "p", "e", "r", "2">>
        /\ pkginfo[1].version = <<"v", "0", ".", "1", ".", "0">>

\* C3, amended: the name read back is the declared 'gripper2', unchanged
\* (also as the project name used for the distribution's files); the version
\* read back is the declared 'v0.1.0' in normal form, '0.1.0', without the
\* leading 'v'.
C3_NameKeptVersionNormalized ==
    pkginfo # <<>> =>
        /\ dist[1].name = <<"g", "r", "i", "p", "p", "e", "r", "2">>
        /\ dist[1].version = <<"v", "0", ".", "1", ".", "0">>
        /\ pkginfo[1].name = dist[1].name
        /\ pkginfo[1].project_name = dist[1].name
        /\ pkginfo[1].version = <<"0", ".", "1", ".", "0">>

C3_Witness ==
    /\ pkginfo # <<>>
    /\ pkginfo[1].version # dist[1].version
    /\ pkginfo[1].version = Tail(dist[1].version)

\* C4: the declared run-time dependencies are exactly pysam, numpy and
\* scikit-bio, and after a successful install all three are installed.
C4_ThreeDependencies ==
    /\ dist # <<>> =>
          /\ Len(dist[1].install_requires) = Cardinality(DeclaredDeps)
          /\ Range(dist[1].install_requires) = DeclaredDeps
    /\ pkginfo # <<>> => Range(pkginfo[1].requires) = DeclaredDeps
    /\ outcome = "success" => DeclaredDeps \subseteq env

C4_Witness ==
    /\ outcome = "success" /\ runs = 1
    /\ index = DeclaredDeps
    /\ DeclaredDeps \subseteq env

\* C5, as stated: the executables a successful install adds to the path
\* are exactly {gripper2}, and every executable that was on the path
\* before the install is left unchanged.
C5_AddsOnlyGripper2AndChangesNothing ==
    outcome = "success" =>
        /\ {n \in DOMAIN path : FileKind(path0, n) = "none" /\ path[n] # "none"}
              = {"gripper2"}
        /\ \A n \in DOMAIN path0 : path0[n] # "none" => path[n] = path0[n]

\* C5, amended: the declaration registers a single script, gripper2; the
\* install step leaves every executable under another name unchanged, and
\* after a successful install gripper2 is on the path; an executable that
\* was already there under the name gripper2 may be replaced.
C5_OnlyGripper2Touched ==
    /\ dist # <<>> => dist[1].scripts = <<"gripper2">>
    /\ DOMAIN path = DOMAIN path0
    /\ \A n \in DOMAIN path0 \ {"gripper2"} : path[n] = path0[n]
    /\ outcome = "success" => path["gripper2"] # "none"

C5_Witness ==
    /\ outcome = "success"
    /\ path0["gripper2"] = "foreign" /\ path["gripper2"] = "own"
    /\ path0["samtools"] = "foreign" /\ path["samtools"] = "foreign"

\* The license a license classifier names, as the license field spells it.
ClassifierLicense(c) == IF c[Len(c)] = "MIT License" THEN "MIT" ELSE c[Len(c)]

PythonVersionsOf(cs) ==
    {cs[i][3] : i \in {j \in DOMAIN cs :
                          Len(cs[j]) = 3 /\ cs[j][1] = "Programming Language"
                                         /\ cs[j][2] = "Python"}}

LicensesOf(cs) ==
    {ClassifierLicense(cs[i]) : i \in {j \in DOMAIN cs : cs[j][1] = "License"}}

\* C6: the classifiers name exactly the runtime versions Python 3.8, 3.9,
\* 3.10 and 3.11, and the one license they name, MIT, is the license of the
\* license field; the written metadata carries them as declared.
C6_ClassifiersVersionsAndLicense ==
    /\ dist # <<>> =>
          /\ PythonVersionsOf(dist[1].classifiers) = {"3.8", "3.9", "3.10", "3.11"}
          /\ LicensesOf(dist[1].classifiers) = {"MIT"}
          /\ LicensesOf(dist[1].classifiers) = {dist[1].license}
    /\ pkginfo # <<>> =>
          /\ pkginfo[1].classifiers = dist[1].classifiers
          /\ pkginfo[1].license = dist[1].license

C6_Witness ==
    /\ pkginfo # <<>>
    /\ "3.11" \in PythonVersionsOf(pkginfo[1].classifiers)
    /\ pkginfo[1].license \in LicensesOf(pkginfo[1].classifiers)

BothDeclared == dist # <<>> /\ prevDist # <<>>

PackageDirs(t) == {n \in DOMAIN t : t[n] = "pkg"}

\* C7, as stated: two runs of the packaging step on any two source trees
\* declare the same distribution (name, version, scripts, packages,
\* dependencies).
C7_SameDeclarationOnAnyTrees ==
    BothDeclared =>
        /\ dist[1].name = prevDist[1].name
        /\ dist[1].version = prevDist[1].version
        /\ dist[1].scripts = prevDist[1].scripts
        /\ dist[1].packages = prevDist[1].packages
        /\ dist[1].install_requires = prevDist[1].install_requires

\* C7, amended: every argument of setup() but packages is fixed before the
\* run, so two runs on any two source trees declare the same name, version,
\* scripts and dependencies (and the other metadata); packages is computed
\* from the tree at run time, and is the same when the two trees hold the
\* same package directories.
C7_SameDeclarationButPackages ==
    BothDeclared =>
        /\ [dist[1] EXCEPT !.packages = {}] = [prevDist[1] EXCEPT !.packages = {}]
        /\ PackageDirs(tree) = PackageDirs(prevTree[1])
              => dist[1].packages = prevDist[1].packages

C7_Witness ==
    /\ BothDeclared
    /\ dist[1].packages # prevDist[1].packages
    /\ FileKind(tree, "gripper2") # FileKind(prevTree[1], "gripper2")

\* The release tag an archive URL .../refs/tags/<tag>.tar.gz points to.
TarGz == <<".", "t", "a", "r", ".", "g", "z">>

TagOf(u) ==
    LET segs == Split(u, "/")
        last == segs[Len(segs)]
    IN  IF /\ Len(segs) > 1
           /\ segs[Len(segs) - 1] = <<"t", "a", "g", "s">>
           /\ Len(last) > Len(TarGz)
           /\ SubSeq(last, Len(last) - Len(TarGz) + 1, Len(last)) = TarGz
        THEN SubSeq(last, 1, Len(last) - Len(TarGz))
        ELSE <<>>

\* C8: the release tag embedded in download_url is the declared version
\* string, 'v0.1.0'.
C8_DownloadTagIsVersion ==
    dist # <<>> =>
        /\ TagOf(dist[1].download_url) = dist[1].version
        /\ dist[1].version = <<"v", "0", ".", "1", ".", "0">>

C8_Witness ==
    /\ dist # <<>>
    /\ Len(TagOf(dist[1].download_url)) > 0
    /\ TagOf(dist[1].download_url)[1] = "v"

\* C9: no interpreter requirement is declared and no run is rejected for
\* the interpreter's version: the result of a run is decided by the
\* dependencies and the script file alone, on an interpreter outside the
\* classifiers' versions as on one inside them.
C9_NoInterpreterRejection ==
    /\ dist # <<>> => dist[1].python_requires = <<>>
    /\ outcome # "fail_python"
    /\ pc = "done" =>
          outcome = IF ~DepsResolvable THEN "fail_dependency"
                    ELSE IF ~ScriptFileExists THEN "fail_script"
                    ELSE "success"

C9_Witness ==
    /\ pc = "done" /\ outcome = "success"
    /\ interp \notin PythonVersionsOf(dist[1].classifiers)

====
